---- MODULE Spec2Model ----
\* Token-bucket limiter of RateLimitX402: the in-process limiter
\* (pkg/ratelimit/memory) and the Redis limiter (pkg/ratelimit/redis),
\* driven by the same stream of Allow / Refill / Available calls.
\*
\* Fixed-point arithmetic.  Time is counted in ticks, TicksPerSec ticks to
\* the second.  Token amounts are counted in units, One units to the token,
\* with One = TicksPerSec, so that duration.Seconds() * refillRate tokens
\* is exactly (elapsed ticks) * RefillRate units and no rounding occurs.
EXTENDS Integers, Sequences, FiniteSets, TLC

\* ------------------------------------------------------------------ bounds
TicksPerSec == 2          \* clock resolution of the model
Capacity    == 2          \* configured capacity, in tokens
RefillRate  == 1          \* configured refill rate, in tokens per second
MaxTime     == 4          \* the clock stops at MaxTime ticks
MaxSkew     == 1          \* a Redis caller's clock lags at most MaxSkew ticks
MaxOver     == 5          \* units a bucket may hold above capacity
MaxShort    == 1          \* the clock of the many-clients runs stops here
MaxIdle     == 7          \* the clock of the long idle runs stops here
MaxConc     == 2          \* the clock of the concurrent runs stops here
Threshold   == 2          \* successful payments needed to become trusted
TrustWindow == 7          \* ticks a successful payment counts towards trust
QueueCap    == 1          \* buffer size of the settlement queue

Keys    == {"a", "b"}                  \* client keys
OneKey  == {"a"}                       \* the single client of the long runs
One     == TicksPerSec                 \* units per token
CapU    == Capacity * One              \* capacity in units
MaxTok  == CapU + MaxOver
Amounts == {1, CapU}                   \* Refill amounts: a fraction, a purchase
NoField == -1                          \* a hash field that is not set (nil)

Min(a, b) == IF a < b THEN a ELSE b
CeilDiv(a, b) == (a + b - 1) \div b

VARIABLES
  now,    \* true time, in ticks (time.Now(), and the Redis server's clock)
  mem,    \* memory.TokenBucket: [tokens, lastRefillTime]
  rds,    \* Redis keyspace: key -> hash {tokens, last_refill} with expiry
  last,   \* ghost: the most recent limiter call and what it returned
  sync,   \* ghost: no Redis call so far carried a lagging clock
  refd,   \* ghost: keys on which Refill has been called
  fk,     \* ghost: per key, the burst of calls since it was first seen
  ep,     \* ghost: per bucket, Refills and Allows made at one instant
  rg,     \* ghost: per bucket, Allows since the last refused Allow
  low,    \* ghost: per bucket, since when it has been below capacity
  call,   \* per caller: the limiter call it has in flight, and its result
  snap,   \* ghost: the buckets when the current round of calls began
  mu,     \* trust.Tracker.mu: who holds the read-write mutex
  gor,    \* per goroutine: the tracker call it has in flight
  cfg,    \* what main() constructed: the limiter in use, optimistic mode
  payments, \* trust.Tracker: payer -> timestamps of successful payments
  jobs,   \* SettlementQueue.jobs: the buffered channel of settlement jobs
  pending,  \* SettlementQueue.pending
  wrk,    \* the settlement worker: position, the job in hand
  shut,   \* SettlementQueue.Close: not called, waiting, returned
  req,    \* the request in the admission middleware: position, what was
          \* called for it so far, the response
  paid    \* ghost: per payer, the payments accepted so far and the time of
          \* the first

ghostvars == <<last, sync, refd, fk, ep, rg, low>>
concvars  == <<call, snap, mu, gor>>
pipevars  == <<cfg, shut, payments, jobs, pending, wrk, req, paid>>
vars == <<now, mem, rds, ghostvars, concvars, pipevars>>

\* ------------------------------------------------- in-process limiter
\* NewTokenBucket: starts full, lastRefillTime = time.Now().
NewTokenBucket(t) == [tokens |-> CapU, lastRefillTime |-> t]

\* Variants of refill() with a plausible slip.
\* The classic bucket: always add, always cap (burst tokens are erased).
Mem_refill_Classic(tb, t) ==
  [tokens |-> Min(CapU, tb.tokens + (t - tb.lastRefillTime) * RefillRate),
   lastRefillTime |-> t]
\* lastRefillTime is not advanced: elapsed time is credited again and again.
Mem_refill_StaleClock(tb, t) ==
  [tokens |-> IF tb.tokens < CapU
                THEN Min(CapU, tb.tokens + (t - tb.lastRefillTime) * RefillRate)
                ELSE tb.tokens,
   lastRefillTime |-> tb.lastRefillTime]

\* refill(): natural regeneration, only below capacity; always advances
\* lastRefillTime.
Mem_refill(tb, t) ==
  LET duration    == t - tb.lastRefillTime
      tokensToAdd == duration * RefillRate
      added       == tb.tokens + tokensToAdd
  IN  [tokens |-> IF tb.tokens < CapU
                    THEN (IF added > CapU THEN CapU ELSE added)
                    ELSE tb.tokens,
       lastRefillTime |-> t]

\* Variant of Allow with "tokens > 0" for "tokens >= 1".
Mem_Allow_Partial(tb, key, t) ==
  LET r == Mem_refill(tb, t)
  IN  IF r.tokens > 0
        THEN <<[r EXCEPT !.tokens = r.tokens - One], TRUE>>
        ELSE <<r, FALSE>>

\* Allow(key): the key is ignored; refill, then consume one token if there
\* is one.  Result: <<bucket, permitted>>.
Mem_Allow(tb, key, t) ==
  LET r == Mem_refill(tb, t)
  IN  IF r.tokens >= One
        THEN <<[r EXCEPT !.tokens = r.tokens - One], TRUE>>
        ELSE <<r, FALSE>>

\* Available(): refill (stored), return tokens.  Result: <<bucket, tokens>>.
Mem_Available(tb, t) ==
  LET r == Mem_refill(tb, t)
  IN  <<r, r.tokens>>

\* Variant of Refill that caps at capacity.
Mem_Refill_Capped(tb, key, tokens) ==
  [tb EXCEPT !.tokens = Min(CapU, tb.tokens + tokens)]

\* Refill(key, tokens): the key is ignored; adds, no cap, no natural refill.
Mem_Refill(tb, key, tokens) == [tb EXCEPT !.tokens = tb.tokens + tokens]

\* ------------------------------------------------------ Redis limiter
NoKey == [present |-> FALSE, tokens |-> 0, last_refill |-> NoField, exp |-> 0]

\* EXPIRE key ceil(capacity / refill_rate) + 1   (seconds, server clock)
RedisTTL == (CeilDiv(Capacity, RefillRate) + 1) * TicksPerSec

\* A Lua number returned by a script becomes a Redis integer reply: the
\* fraction is dropped (truncation toward zero).
LuaToInteger(u) == IF u >= 0 THEN (u \div One) * One ELSE 0 - (((0 - u) \div One) * One)

\* The Allow script (NewTokenBucket).  cnow is ARGV[3], the caller's clock;
\* srv is the server's clock, used by EXPIRE.  Result: <<hash, reply = 1>>.
Redis_AllowScript(h, cnow, srv) ==
  LET tokens0     == IF h.present THEN h.tokens ELSE CapU
      last_refill == IF h.present /\ h.last_refill # NoField THEN h.last_refill ELSE cnow
      elapsed     == cnow - last_refill
      added       == tokens0 + elapsed * RefillRate
      tokens      == IF tokens0 < CapU
                       THEN (IF added > CapU THEN CapU ELSE added)
                       ELSE tokens0
  IN  IF tokens >= One
        THEN <<[present |-> TRUE, tokens |-> tokens - One, last_refill |-> cnow,
                exp |-> srv + RedisTTL], TRUE>>
        ELSE <<[present |-> TRUE, tokens |-> tokens, last_refill |-> cnow,
                exp |-> srv + RedisTTL], FALSE>>

\* The Refill script: HSET tokens only (last_refill is left as it is),
\* no cap, EXPIRE.
Redis_Refill(h, tokens_to_add, srv) ==
  LET current == IF h.present THEN h.tokens ELSE CapU
  IN  [present |-> TRUE, tokens |-> current + tokens_to_add,
       last_refill |-> h.last_refill, exp |-> srv + RedisTTL]

\* The Available script: read-only; the reply is an integer reply.
Redis_Available(h, cnow) ==
  LET tokens == IF h.present /\ h.last_refill # NoField /\ h.tokens < CapU
                  THEN (LET added == h.tokens + (cnow - h.last_refill) * RefillRate
                        IN  IF added > CapU THEN CapU ELSE added)
                  ELSE h.tokens
  IN  IF ~h.present THEN LuaToInteger(CapU) ELSE LuaToInteger(tokens)

\* Keys whose idle expiry has passed at server time t are gone.
Redis_Expire(db, t) ==
  [k \in Keys |-> IF db[k].present /\ db[k].exp <= t THEN NoKey ELSE db[k]]

\* What a bucket holds: an absent Redis key stands for a full bucket.
RTokens(h) == IF h.present THEN h.tokens ELSE CapU

\* ------------------------------------------------------ ghost state
Buckets == Keys \cup {"mem"}           \* the in-process bucket and one per Redis key

NoCall == [op |-> "init", key |-> "a", n |-> 0, skew |-> 0,
           memOk |-> FALSE, rdsOk |-> FALSE, memRet |-> 0, rdsRet |-> 0]

Unseen  == [st |-> "unseen", moks |-> 0, roks |-> 0]
Over    == [st |-> "over", moks |-> 0, roks |-> 0]
Dead    == [live |-> FALSE, t0 |-> 0, sum |-> 0, nref |-> 0, oks |-> 0]
NoRefusal == [refAt |-> -1, oks |-> 0]

B2N(b) == IF b THEN 1 ELSE 0

\* A bucket is settled when no natural refill is pending for it at time t.
MemSettled(tb, t) == tb.tokens >= CapU \/ tb.lastRefillTime = t
RedisSettled(h, t) == ~h.present \/ h.tokens >= CapU \/ h.last_refill = t

\* fk: the calls made on a key at the instant it is first seen.
FkAllow(f, mOk, rOk, s) ==
  IF s > 0 \/ f.st = "over" THEN Over
  ELSE [st |-> "burst", moks |-> Min(f.moks + B2N(mOk), Capacity + 1),
                        roks |-> Min(f.roks + B2N(rOk), Capacity + 1)]
FkAvailable(f) == IF f.st = "unseen" THEN [f EXCEPT !.st = "burst"] ELSE f

\* ep: a run of Refills followed by Allows, all at one instant, that began
\* on a settled bucket holding t0.
EpRefill(e, n, tokBefore, settled) ==
  IF e.live /\ e.oks = 0 THEN [e EXCEPT !.sum = e.sum + n, !.nref = e.nref + 1]
  ELSE IF settled THEN [live |-> TRUE, t0 |-> tokBefore, sum |-> n, nref |-> 1, oks |-> 0]
  ELSE Dead
EpAllow(e, ok, s) ==
  IF s > 0 \/ ~e.live THEN Dead ELSE [e EXCEPT !.oks = e.oks + B2N(ok)]

\* rg: the Allows made exactly 1/refill_rate seconds after a refused Allow.
RgDue(g, t) == g.refAt >= 0 /\ (t - g.refAt) * RefillRate = One
RgAllow(g, ok, s, t) ==
  IF s > 0 THEN NoRefusal
  ELSE IF ~ok THEN [refAt |-> t, oks |-> 0]
  ELSE IF RgDue(g, t) THEN [g EXCEPT !.oks = g.oks + 1]
  ELSE NoRefusal
RgTick(g, t) ==
  IF g.refAt >= 0 /\ (t - g.refAt) * RefillRate > One THEN NoRefusal ELSE g

\* low: the time at which consumption brought a bucket below capacity, for
\* as long as it has stayed below since.  The level of a bucket at time t
\* is what an operation made at t finds in it after its natural refill.
AtCapacity == NoField
Level(b, tb, db, t) ==
  IF b = "mem" THEN Mem_refill(tb, t).tokens
  ELSE LET r == Redis_AllowScript(db[b], t, t)
       IN  r[1].tokens + (IF r[2] THEN One ELSE 0)
LowAfter(lo, level, t) ==
  IF level >= CapU THEN AtCapacity ELSE IF lo = AtCapacity THEN t ELSE lo
LowNext(tb, db, t) == [b \in Buckets |-> LowAfter(low[b], Level(b, tb, db, t), t)]

\* ------------------------------------------------ concurrent callers
Procs == {"p1", "p2"}                  \* goroutines calling the limiter

\* A caller with no call in flight.
Idle == [pc |-> "idle", op |-> "allow", inv |-> 0, resp |-> 0,
         memOk |-> FALSE, rdsOk |-> FALSE]

\* --------------------------------------- the trust tracker's mutex
\* sync.RWMutex: writers and readers inside; waited is a ghost, set once a
\* RecordSuccess took the lock while another RecordSuccess was waiting.
Unlocked == [writers |-> 0, readers |-> 0, waited |-> FALSE]
\* Variant of Lockable: Lock does not exclude anyone.
Lockable_NoExclusion(m) == TRUE
\* mu.Lock() goes through when nobody is inside, mu.RLock() when no
\* writer is.
Lockable(m) == m.writers = 0 /\ m.readers = 0
RLockable(m) == m.writers = 0
\* The tracker's methods that goroutines call, and those that only read.
TrackerOps == {"RecordSuccess", "IsTrusted", "RecentPayments", "Stats"}
Readers    == TrackerOps \ {"RecordSuccess"}
\* A goroutine with no tracker call in flight; buf is the slice that
\* append has read, ret what the call returns.
NoTrackerCall == [pc |-> "idle", op |-> "IsTrusted", buf |-> <<>>, ret |-> 0]

\* ------------------------------------------------ the limiter in use
\* main() builds one limiter, "memory" or "redis"; the middleware calls it
\* through ratelimit.Limiter.  Each result carries both stores, of which
\* only the one in use changes.
Lim_Allow(b, tb, db, k, t) ==
  IF b = "memory"
    THEN LET m == Mem_Allow(tb, k, t)
         IN  [mem |-> m[1], rds |-> db, ok |-> m[2]]
    ELSE LET r == Redis_AllowScript(db[k], t, t)
         IN  [mem |-> tb, rds |-> [db EXCEPT ![k] = r[1]], ok |-> r[2]]
Lim_Refill(b, tb, db, k, n, t) ==
  IF b = "memory"
    THEN [mem |-> Mem_Refill(tb, k, n), rds |-> db]
    ELSE [mem |-> tb, rds |-> [db EXCEPT ![k] = Redis_Refill(db[k], n, t)]]
\* What GET /tokens would answer.
Lim_Available(b, tb, db, k, t) ==
  IF b = "memory" THEN Mem_Available(tb, t)[2] ELSE Redis_Available(db[k], t)

\* ------------------------------------------------------ trust tracker
\* Payer ids: a parsed wallet address, and the empty id that
\* extractWalletAddress returns for a header it cannot parse.
Wallets == {"w1", ""}
Payers  == {"w1"}                      \* the payers of the pipeline runs
MaxPay  == Threshold + 1               \* timestamps kept per payer, at most

\* Variant of countRecent: a timestamp exactly one window old still counts.
countRecent_Inclusive(pm, w, t) ==
  Cardinality({i \in 1..Len(pm[w]) : pm[w][i] >= t - TrustWindow})
\* countRecent: timestamps after now - window.
countRecent(pm, w, t) ==
  Cardinality({i \in 1..Len(pm[w]) : pm[w][i] > t - TrustWindow})
IsTrusted(pm, w, t) == countRecent(pm, w, t) >= Threshold
\* cleanup: keeps the timestamps after now - window.
cleanup(ts, t) == SelectSeq(ts, LAMBDA x : x > t - TrustWindow)
RecordSuccess(pm, w, t) == [pm EXCEPT ![w] = cleanup(Append(pm[w], t), t)]
\* What a reading method returns: IsTrusted, RecentPayments, and the
\* TrustedWallets of Stats.
Tracker_Read(op, pm, w, t) ==
  IF op = "IsTrusted" THEN B2N(IsTrusted(pm, w, t))
  ELSE IF op = "RecentPayments" THEN countRecent(pm, w, t)
  ELSE Cardinality({x \in Wallets : IsTrusted(pm, x, t)})
\* Variant of RecordFailure: only the oldest success is forgotten.
RecordFailure_DropOldest(pm, w) ==
  [pm EXCEPT ![w] = IF @ = <<>> THEN <<>> ELSE Tail(@)]
\* RecordFailure: delete(t.payments, wallet).
RecordFailure(pm, w) == [pm EXCEPT ![w] = <<>>]

\* ------------------------------------------------ admission middleware
\* extractWalletAddress: a payment header is modelled by whether it
\* decodes and parses (ok) and by the payer address it then carries.
extractWalletAddress(h) == IF h.ok THEN h.from ELSE ""
\* Verifiable payment headers that give extractWalletAddress no payer: one
\* that does not decode or parse, one without payload.authorization.from.
Unreadable == {[ok |-> FALSE, from |-> "w1"], [ok |-> TRUE, from |-> ""]}

\* Ghost: the payments of a payer that the pipeline accepted (settled in the
\* handler, or handed to the settlement queue), when the first was, and
\* whether a background settlement of the payer has failed since the
\* middleware last chose the path of a payment of the payer.
NoPayment == [n |-> 0, since |-> 0, revoked |-> FALSE]
NotePayment(pd, w, t) ==
  [pd EXCEPT ![w].n = Min(@ + 1, MaxPay),
             ![w].since = IF pd[w].n = 0 THEN t ELSE @]
NotePath(pd, w, verified) ==
  IF verified THEN [pd EXCEPT ![w].revoked = FALSE] ELSE pd
NoteSettled(pd, w, ok) ==
  IF ok THEN pd ELSE [pd EXCEPT ![w].revoked = TRUE]

NoServer == [limiter |-> "none", optimistic |-> FALSE]
Backends == {"memory", "redis"}

\* time.Sleep(3 * time.Second) between two settlements of the worker.
SettleDelay == 3 * TicksPerSec
MaxPipe     == 2 * SettleDelay + MaxShort  \* the latest wake-up of the worker
                                            \* explored: two settlements later
\* NewSettlementQueue: the buffer of the channel it makes.
DefaultBuffer == 100
BufferSize(bufferSize) == IF bufferSize <= 0 THEN DefaultBuffer ELSE bufferSize
\* Variant of CanSend: the channel takes a job whatever it holds.
CanSend_Always(q, cap) == TRUE
\* sq.jobs <- job goes through when the buffer of the channel has room;
\* the sender waits otherwise.
CanSend(q, cap) == Len(q) < cap
\* Variant of Dequeue: the received job stays in the buffer.
Dequeue_Peek(q) == [job |-> Head(q), rest |-> q]
\* Variant of Dequeue: the worker receives the newest job.
Dequeue_Newest(q) == [job |-> q[Len(q)], rest |-> SubSeq(q, 1, Len(q) - 1)]
\* for job := range sq.jobs: a receive from the channel.
Dequeue(q) == [job |-> Head(q), rest |-> Tail(q)]
\* The buffer of the queue in the runs of the queue alone.
QueueLen == QueueCap + 1
\* Variant of PendingAfterJob: a failed settlement is not counted off.
PendingAfterJob_SuccessOnly(n, ok) == IF ok THEN n - 1 ELSE n
\* The worker's sq.pending-- once processSettlement has returned, whatever
\* the result (ok) of the settlement.
PendingAfterJob(n, ok) == n - 1
\* Variant of WaitReturns: Close does not wait for the worker.
WaitReturns_NoWait(w) == TRUE
\* sq.wg.Wait() returns once the worker has called wg.Done().
WaitReturns(w) == w.pc = "exited"
WorkerStart ==
  [pc |-> "wait", first |-> TRUE, job |-> "", wake |-> 0, ok |-> TRUE, ended |-> 0]

\* Variant of processSettlement: a failed settlement also takes the
\* refilled tokens back.
processSettlement_Debit(st, w, ok, t) ==
  IF ok THEN [st EXCEPT !.payments = RecordSuccess(@, w, t)]
  ELSE [st EXCEPT !.payments = RecordFailure(@, w),
                  !.mem = [@ EXCEPT !.tokens = @ - CapU]]
\* SettlementQueue.processSettlement when the facilitator has answered:
\* what it does to the trust records and the buckets (st).
processSettlement(st, w, ok, t) ==
  IF ok THEN [st EXCEPT !.payments = RecordSuccess(@, w, t)]
  ELSE [st EXCEPT !.payments = RecordFailure(@, w)]

\* No request yet.  A request record holds: its position (pc), its key
\* and payment header (hdr: present; wallet: the payer id parsed from it),
\* what Allow returned and when, how many times verify, settle, Refill,
\* Enqueue, a trust update and the protected handler were called for it and
\* with what result, whether a log line naming the transaction of its
\* settlement was written (txlog), and the status of the response.
NoReq == [pc |-> "idle", key |-> "a", hdr |-> FALSE, wallet |-> "",
          allowed |-> "none", t0 |-> 0,
          verify |-> 0, verified |-> FALSE, trusted |-> FALSE,
          settle |-> 0, settleOk |-> FALSE,
          refill |-> 0, refillOk |-> FALSE, amount |-> 0,
          enq |-> 0, rec |-> 0, handler |-> 0, txlog |-> FALSE, status |-> 0]

\* Variants of the step after limiter.Allow, each with a plausible slip.
\* Fail open: a limiter error serves the request.
Mw_AfterAllow_FailOpen(r, allowed) ==
  IF allowed = "err"
    THEN [r EXCEPT !.pc = "done", !.allowed = "err", !.handler = 1, !.status = 200]
  ELSE IF allowed = "yes"
    THEN [r EXCEPT !.pc = "done", !.allowed = "yes", !.handler = 1, !.status = 200]
  ELSE IF ~r.hdr
    THEN [r EXCEPT !.pc = "done", !.allowed = "no", !.status = 402]
  ELSE [r EXCEPT !.pc = "verifying", !.allowed = "no", !.verify = 1]
\* Pre-payment: a payment header is processed although Allow permitted.
Mw_AfterAllow_Prepay(r, allowed) ==
  IF allowed = "err"
    THEN [r EXCEPT !.pc = "done", !.allowed = "err", !.status = 500]
  ELSE IF r.hdr
    THEN [r EXCEPT !.pc = "verifying", !.allowed = allowed, !.verify = 1]
  ELSE IF allowed = "yes"
    THEN [r EXCEPT !.pc = "done", !.allowed = "yes", !.handler = 1, !.status = 200]
  ELSE [r EXCEPT !.pc = "done", !.allowed = "no", !.status = 402]

\* After limiter.Allow returned: 500 on error, the handler when permitted,
\* 402 when refused without a payment header, else ProcessHTTPRequest
\* (verification by the facilitator).
Mw_AfterAllow(r, allowed) ==
  IF allowed = "err"
    THEN [r EXCEPT !.pc = "done", !.allowed = "err", !.status = 500]
  ELSE IF allowed = "yes"
    THEN [r EXCEPT !.pc = "done", !.allowed = "yes", !.handler = 1, !.status = 200]
  ELSE IF ~r.hdr
    THEN [r EXCEPT !.pc = "done", !.allowed = "no", !.status = 402]
  ELSE [r EXCEPT !.pc = "verifying", !.allowed = "no", !.verify = 1]

\* Variant: a rejected payment is settled all the same.
Mw_AfterVerify_SettleRejected(r, verified, trusted, rerr) ==
  IF verified /\ trusted
    THEN IF rerr
           THEN [r EXCEPT !.verified = TRUE, !.trusted = TRUE, !.refill = 1,
                          !.amount = CapU, !.pc = "done", !.status = 500]
           ELSE [r EXCEPT !.verified = TRUE, !.trusted = TRUE, !.refill = 1,
                          !.refillOk = TRUE, !.amount = CapU, !.pc = "enqueueing"]
    ELSE [r EXCEPT !.verified = verified, !.pc = "settling", !.settle = 1]

\* After ProcessHTTPRequest returned: 402 when the payment was rejected
\* (the status of the x402 response); for a trusted payer Refill, then
\* Enqueue (500 if Refill fails); else ProcessSettlement.
Mw_AfterVerify(r, verified, trusted, rerr) ==
  IF ~verified
    THEN [r EXCEPT !.pc = "done", !.status = 402]
  ELSE IF trusted
    THEN IF rerr
           THEN [r EXCEPT !.verified = TRUE, !.trusted = TRUE, !.refill = 1,
                          !.amount = CapU, !.pc = "done", !.status = 500]
           ELSE [r EXCEPT !.verified = TRUE, !.trusted = TRUE, !.refill = 1,
                          !.refillOk = TRUE, !.amount = CapU, !.pc = "enqueueing"]
  ELSE [r EXCEPT !.verified = TRUE, !.pc = "settling", !.settle = 1]

\* Variant of AfterJob: the worker gives up after a failed settlement.
AfterJob_StopOnFailure(w, ok, t) ==
  [w EXCEPT !.pc = IF ok THEN "wait" ELSE "exited", !.ok = ok, !.ended = t]
\* The worker after processSettlement and pending--: back to the head of
\* its loop, whatever the result of the settlement.
AfterJob(w, ok, t) == [w EXCEPT !.pc = "wait", !.ok = ok, !.ended = t]

\* Variant of the step after Enqueue: the request waits for its settlement.
Mw_AfterEnqueue_AwaitSettle(r) ==
  [r EXCEPT !.enq = 1, !.settle = 1, !.pc = "settling"]
\* After Enqueue returned: the handler.
Mw_AfterEnqueue(r) ==
  [r EXCEPT !.enq = 1, !.handler = 1, !.status = 200, !.pc = "done"]

\* Variants of the step after ProcessSettlement.
\* The request is served although the settlement failed.
Mw_AfterSettle_ServeOnFailure(r, ok, rerr, tracker) ==
  IF ~ok
    THEN [r EXCEPT !.pc = "done", !.handler = 1, !.status = 200]
  ELSE IF rerr
    THEN [r EXCEPT !.settleOk = TRUE, !.refill = 1, !.amount = CapU,
                   !.pc = "done", !.status = 500]
  ELSE [r EXCEPT !.settleOk = TRUE, !.refill = 1, !.refillOk = TRUE,
                 !.amount = CapU, !.rec = B2N(tracker), !.txlog = TRUE,
                 !.handler = 1, !.status = 200, !.pc = "done"]
\* The bucket is refilled whatever the settlement returned.
Mw_AfterSettle_RefillFirst(r, ok, rerr, tracker) ==
  IF ~ok
    THEN [r EXCEPT !.refill = 1, !.refillOk = ~rerr, !.amount = CapU,
                   !.pc = "done", !.status = 402]
  ELSE IF rerr
    THEN [r EXCEPT !.settleOk = TRUE, !.refill = 1, !.amount = CapU,
                   !.pc = "done", !.status = 500]
  ELSE [r EXCEPT !.settleOk = TRUE, !.refill = 1, !.refillOk = TRUE,
                 !.amount = CapU, !.rec = B2N(tracker), !.txlog = TRUE,
                 !.handler = 1, !.status = 200, !.pc = "done"]

\* No return after the handler: the request is answered a second time,
\* with the 402 of a failed settlement.
Mw_AfterSettle_FallThrough(r, ok, rerr, tracker) ==
  IF ~ok
    THEN [r EXCEPT !.pc = "done", !.status = 402]
  ELSE IF rerr
    THEN [r EXCEPT !.settleOk = TRUE, !.refill = 1, !.amount = CapU,
                   !.pc = "done", !.status = 500]
  ELSE [r EXCEPT !.settleOk = TRUE, !.refill = 1, !.refillOk = TRUE,
                 !.amount = CapU, !.rec = B2N(tracker), !.txlog = TRUE,
                 !.handler = 1, !.status = 402, !.pc = "done"]

\* After ProcessSettlement returned: 402 on failure; on success Refill
\* (500 if it fails), RecordSuccess if there is a tracker, the log line
\* "[PAYMENT] Settled TX: ...", the handler.
Mw_AfterSettle(r, ok, rerr, tracker) ==
  IF ~ok
    THEN [r EXCEPT !.pc = "done", !.status = 402]
  ELSE IF rerr
    THEN [r EXCEPT !.settleOk = TRUE, !.refill = 1, !.amount = CapU,
                   !.pc = "done", !.status = 500]
  ELSE [r EXCEPT !.settleOk = TRUE, !.refill = 1, !.refillOk = TRUE,
                 !.amount = CapU, !.rec = B2N(tracker), !.txlog = TRUE,
                 !.handler = 1, !.status = 200, !.pc = "done"]

\* ------------------------------------------------------------ behaviour
Init ==
  /\ now = 0
  /\ mem = NewTokenBucket(0)
  /\ rds = [k \in Keys |-> NoKey]
  /\ last = NoCall
  /\ sync = TRUE
  /\ refd = {}
  /\ fk = [k \in Keys |-> Unseen]
  /\ ep = [b \in Buckets |-> Dead]
  /\ rg = [b \in Buckets |-> NoRefusal]
  /\ low = [b \in Buckets |-> AtCapacity]
  /\ call = [p \in Procs |-> Idle]
  /\ snap = [mem |-> NewTokenBucket(0), rds |-> NoKey]
  /\ mu = Unlocked
  /\ gor = [p \in Procs |-> NoTrackerCall]
  /\ cfg = NoServer
  /\ shut = "no"
  /\ payments = [w \in Wallets |-> <<>>]
  /\ jobs = <<>>
  /\ pending = 0
  /\ wrk = WorkerStart
  /\ req = NoReq
  /\ paid = [w \in Wallets |-> NoPayment]

\* limiter.Allow(key) on both limiters; the Redis caller's clock lags s ticks.
Allow(k, s) ==
  /\ s <= now
  /\ LET m == Mem_Allow(mem, k, now)
         r == Redis_AllowScript(rds[k], now - s, now)
     IN  /\ mem' = m[1]
         /\ rds' = [rds EXCEPT ![k] = r[1]]
         /\ last' = [op |-> "allow", key |-> k, n |-> 0, skew |-> s,
                     memOk |-> m[2], rdsOk |-> r[2], memRet |-> 0, rdsRet |-> 0]
         /\ fk' = [fk EXCEPT ![k] = FkAllow(fk[k], m[2], r[2], s)]
         /\ ep' = [ep EXCEPT !["mem"] = EpAllow(ep["mem"], m[2], 0),
                             ![k] = EpAllow(ep[k], r[2], s)]
         /\ rg' = [rg EXCEPT !["mem"] = RgAllow(rg["mem"], m[2], 0, now),
                             ![k] = RgAllow(rg[k], r[2], s, now)]
         /\ low' = LowNext(m[1], [rds EXCEPT ![k] = r[1]], now)
  /\ sync' = (sync /\ s = 0)
  /\ UNCHANGED <<now, refd, concvars, pipevars>>

\* limiter.Refill(key, n) on both limiters.
Refill(k, n) ==
  /\ mem.tokens + n <= MaxTok
  /\ RTokens(rds[k]) + n <= MaxTok
  /\ mem' = Mem_Refill(mem, k, n)
  /\ rds' = [rds EXCEPT ![k] = Redis_Refill(rds[k], n, now)]
  /\ last' = [op |-> "refill", key |-> k, n |-> n, skew |-> 0,
              memOk |-> FALSE, rdsOk |-> FALSE, memRet |-> 0, rdsRet |-> 0]
  /\ refd' = refd \cup {k}
  /\ fk' = [fk EXCEPT ![k] = Over]
  /\ ep' = [ep EXCEPT !["mem"] = EpRefill(ep["mem"], n, mem.tokens, MemSettled(mem, now)),
                      ![k] = EpRefill(ep[k], n, RTokens(rds[k]), RedisSettled(rds[k], now))]
  /\ rg' = [rg EXCEPT !["mem"] = NoRefusal, ![k] = NoRefusal]
  /\ low' = LowNext(Mem_Refill(mem, k, n), [rds EXCEPT ![k] = Redis_Refill(rds[k], n, now)], now)
  /\ UNCHANGED <<now, sync, concvars, pipevars>>

\* limiter.Available(key) on both limiters (the /tokens endpoint).
Available(k, s) ==
  /\ s <= now
  /\ LET m == Mem_Available(mem, now)
     IN  /\ mem' = m[1]
         /\ last' = [op |-> "available", key |-> k, n |-> 0, skew |-> s,
                     memOk |-> FALSE, rdsOk |-> FALSE, memRet |-> m[2],
                     rdsRet |-> Redis_Available(rds[k], now - s)]
         /\ low' = LowNext(m[1], rds, now)
  /\ fk' = [fk EXCEPT ![k] = FkAvailable(fk[k])]
  /\ sync' = (sync /\ s = 0)
  /\ UNCHANGED <<now, rds, refd, ep, rg, concvars, pipevars>>

\* Idle time up to t1; Redis drops the keys whose expiry has passed.
Elapse(t1) ==
  /\ now' = t1
  /\ rds' = Redis_Expire(rds, t1)
  /\ last' = [NoCall EXCEPT !.op = "tick"]
  /\ fk' = [k \in Keys |-> IF fk[k].st = "burst" THEN Over ELSE fk[k]]
  /\ ep' = [b \in Buckets |-> Dead]
  /\ rg' = [b \in Buckets |-> RgTick(rg[b], t1)]
  /\ low' = LowNext(mem, Redis_Expire(rds, t1), t1)
  /\ UNCHANGED <<mem, sync, refd, concvars, pipevars>>

\* One tick of idle time.
Tick(limit) ==
  /\ now < limit
  /\ Elapse(now + 1)

\* A caller enters Allow or Refill.  The Redis Allow reads its clock here,
\* before the script is sent; the in-process call waits for the mutex.
Invoke(p, op) ==
  /\ call[p].pc = "idle"
  /\ call' = [call EXCEPT ![p] = [Idle EXCEPT !.pc = "clocked", !.op = op,
                                               !.inv = now, !.resp = now]]
  /\ UNCHANGED <<now, mem, rds, snap, mu, gor, ghostvars, pipevars>>

\* The call takes effect: the in-process limiter runs it under the mutex
\* (reading the clock there), Redis runs the script atomically with the
\* clock value the caller read at Invoke.
Run(p, k) ==
  /\ call[p].pc = "clocked"
  /\ IF call[p].op = "allow"
       THEN LET m == Mem_Allow(mem, k, now)
                r == Redis_AllowScript(rds[k], call[p].inv, now)
            IN  /\ mem' = m[1]
                /\ rds' = [rds EXCEPT ![k] = r[1]]
                /\ call' = [call EXCEPT ![p].pc = "done", ![p].resp = now,
                                        ![p].memOk = m[2], ![p].rdsOk = r[2]]
       ELSE /\ mem.tokens + CapU <= MaxTok
            /\ RTokens(rds[k]) + CapU <= MaxTok
            /\ mem' = Mem_Refill(mem, k, CapU)
            /\ rds' = [rds EXCEPT ![k] = Redis_Refill(rds[k], CapU, now)]
            /\ call' = [call EXCEPT ![p].pc = "done", ![p].resp = now]
  /\ UNCHANGED <<now, snap, mu, gor, ghostvars, pipevars>>

\* All calls have returned: a new round of calls begins.
NewRound(k) ==
  /\ \A p \in Procs : call[p].pc # "clocked"
  /\ \E p \in Procs : call[p].pc = "done"
  /\ call' = [p \in Procs |-> Idle]
  /\ snap' = [mem |-> mem, rds |-> rds[k]]
  /\ UNCHANGED <<now, mem, rds, mu, gor, ghostvars, pipevars>>

\* main(): the limiter named by the configuration, and the trust tracker
\* and settlement queue if optimistic settlement is enabled.
Main(b, o) ==
  /\ cfg.limiter = "none"
  /\ cfg' = [limiter |-> b, optimistic |-> o]
  /\ UNCHANGED <<now, mem, rds, ghostvars, concvars, shut, payments, jobs, pending, wrk, req, paid>>

\* A request for key k enters the middleware: limiter.Allow and what
\* follows at once.  hdr: it carries a payment header, whose payer id is
\* w; lerr: the limiter cannot reach its store (the Redis limiter only).
Arrive(k, hdr, w, lerr) ==
  /\ cfg.limiter # "none"
  /\ req.pc = "idle"
  /\ ~hdr => w = ""
  /\ lerr => cfg.limiter = "redis"
  /\ LET r0 == [NoReq EXCEPT !.key = k, !.hdr = hdr, !.wallet = w, !.t0 = now]
         L  == Lim_Allow(cfg.limiter, mem, rds, k, now)
     IN  IF lerr
           THEN /\ req' = Mw_AfterAllow(r0, "err")
                /\ UNCHANGED <<mem, rds>>
           ELSE /\ req' = Mw_AfterAllow(r0, IF L.ok THEN "yes" ELSE "no")
                /\ mem' = L.mem
                /\ rds' = L.rds
  /\ UNCHANGED <<now, ghostvars, concvars, cfg, shut, payments, jobs, pending, wrk, paid>>

\* ProcessHTTPRequest returns.  verified: the facilitator accepted the
\* payment; rerr: limiter.Refill fails.
VerifyReturn(verified, rerr) ==
  /\ req.pc = "verifying"
  /\ rerr => cfg.limiter = "redis"
  /\ LET trusted == cfg.optimistic /\ IsTrusted(payments, req.wallet, now)
         r == Mw_AfterVerify(req, verified, trusted, rerr)
         L == Lim_Refill(cfg.limiter, mem, rds, req.key, r.amount, now)
     IN  /\ req' = r
         /\ IF r.refillOk
              THEN mem' = L.mem /\ rds' = L.rds
              ELSE UNCHANGED <<mem, rds>>
         /\ pending' = IF r.pc = "enqueueing" THEN pending + 1 ELSE pending
         /\ paid' = LET pd == NotePath(paid, req.wallet, verified)
                     IN  IF r.pc = "enqueueing"
                           THEN NotePayment(pd, req.wallet, now) ELSE pd
  /\ UNCHANGED <<now, ghostvars, concvars, cfg, shut, payments, jobs, wrk>>

\* Enqueue: the send on the channel goes through when the buffer has room.
EnqueueSend ==
  /\ req.pc = "enqueueing"
  /\ CanSend(jobs, BufferSize(QueueCap))
  /\ jobs' = Append(jobs, req.wallet)
  /\ req' = Mw_AfterEnqueue(req)
  /\ UNCHANGED <<now, mem, rds, ghostvars, concvars, cfg, shut, payments, pending, wrk, paid>>

\* ProcessSettlement returns to the request handler.
SettleReturn(ok, rerr) ==
  /\ req.pc = "settling"
  /\ rerr => cfg.limiter = "redis"
  /\ ok => Len(payments[req.wallet]) < MaxPay
  /\ LET r == Mw_AfterSettle(req, ok, rerr, cfg.optimistic)
         L == Lim_Refill(cfg.limiter, mem, rds, req.key, r.amount, now)
     IN  /\ req' = r
         /\ IF r.refillOk
              THEN mem' = L.mem /\ rds' = L.rds
              ELSE UNCHANGED <<mem, rds>>
         /\ payments' = IF r.rec = 1
                           THEN RecordSuccess(payments, req.wallet, now)
                           ELSE payments
         /\ paid' = IF ok THEN NotePayment(paid, req.wallet, now) ELSE paid
  /\ UNCHANGED <<now, ghostvars, concvars, cfg, shut, jobs, pending, wrk>>

\* The worker receives the next job; it sleeps before every job but the
\* first.
WorkerTake ==
  /\ wrk.pc = "wait"
  /\ jobs # <<>>
  /\ jobs' = Dequeue(jobs).rest
  /\ wrk' = [wrk EXCEPT !.pc = IF wrk.first THEN "settling" ELSE "sleep",
                         !.first = FALSE, !.job = Dequeue(jobs).job,
                         !.wake = IF wrk.first THEN now ELSE now + SettleDelay]
  /\ UNCHANGED <<now, mem, rds, ghostvars, concvars, cfg, shut, payments, pending, req, paid>>

\* Nothing happens until the sleeping worker is due to wake up.
SleepOut ==
  /\ wrk.pc = "sleep"
  /\ now < wrk.wake
  /\ wrk.wake <= MaxPipe
  /\ Elapse(wrk.wake)

\* time.Sleep returns in the worker.
WorkerWake ==
  /\ wrk.pc = "sleep"
  /\ now >= wrk.wake
  /\ wrk' = [wrk EXCEPT !.pc = "settling"]
  /\ UNCHANGED <<now, mem, rds, ghostvars, concvars, cfg, shut, payments, jobs, pending, req, paid>>

\* The response has been written; the middleware is ready for the next
\* request.
Respond ==
  /\ req.pc = "done"
  /\ req' = NoReq
  /\ UNCHANGED <<now, mem, rds, ghostvars, concvars, cfg, shut, payments, jobs, pending, wrk, paid>>

\* processSettlement returns in the worker: the trust update, pending--.
WorkerSettle(ok) ==
  /\ wrk.pc = "settling"
  /\ ok => Len(payments[wrk.job]) < MaxPay
  /\ LET st == processSettlement([payments |-> payments, mem |-> mem, rds |-> rds],
                                 wrk.job, ok, now)
     IN  payments' = st.payments /\ mem' = st.mem /\ rds' = st.rds
  /\ pending' = PendingAfterJob(pending, ok)
  /\ wrk' = AfterJob(wrk, ok, now)
  /\ paid' = NoteSettled(paid, wrk.job, ok)
  /\ UNCHANGED <<now, ghostvars, concvars, cfg, shut, jobs, req>>

\* Close, first half: close(sq.jobs).  The caller then waits in wg.Wait().
CloseCall ==
  /\ shut = "no"
  /\ shut' = "waiting"
  /\ UNCHANGED <<now, mem, rds, ghostvars, concvars, cfg, payments, jobs, pending, wrk, req, paid>>

\* for job := range sq.jobs ends once the channel is closed and empty:
\* the worker returns (defer sq.wg.Done()).
WorkerExit ==
  /\ wrk.pc = "wait"
  /\ shut # "no"
  /\ jobs = <<>>
  /\ wrk' = [wrk EXCEPT !.pc = "exited"]
  /\ UNCHANGED <<now, mem, rds, ghostvars, concvars, cfg, shut, payments, jobs, pending, req, paid>>

\* Close, second half: sq.wg.Wait() returns.
CloseReturn ==
  /\ shut = "waiting"
  /\ WaitReturns(wrk)
  /\ shut' = "returned"
  /\ UNCHANGED <<now, mem, rds, ghostvars, concvars, cfg, payments, jobs, pending, wrk, req, paid>>

\* The callers of Enqueue stop before Close is called (a send on a closed
\* channel panics), and the runs explored leave the worker the time to
\* sleep before every job it is given.
TimeToSettle ==
  (IF now > wrk.wake THEN now ELSE wrk.wake)
    + (Len(jobs) + 1) * SettleDelay + MaxShort <= MaxPipe
MayEnqueue == shut = "no" /\ TimeToSettle

\* SettlementQueue.Enqueue called directly for a job of payer w, on a
\* queue built with a buffer of cap jobs: pending++ and the send, which
\* goes through when the buffer has room.
Enqueue(w, cap) ==
  /\ CanSend(jobs, BufferSize(cap))
  /\ pending' = pending + 1
  /\ jobs' = Append(jobs, w)
  /\ UNCHANGED <<now, mem, rds, ghostvars, concvars, cfg, shut, payments, wrk, req, paid>>

\* Goroutine p calls a method of the tracker for payer w; the ghost paid
\* counts the RecordSuccess calls made.
TrCall(p, op, w) ==
  /\ gor[p].pc = "idle"
  /\ op = "RecordSuccess" => paid[w].n < MaxPay
  /\ gor' = [gor EXCEPT ![p] = [NoTrackerCall EXCEPT !.pc = "lock", !.op = op]]
  /\ paid' = IF op = "RecordSuccess" THEN NotePayment(paid, w, now) ELSE paid
  /\ UNCHANGED <<now, mem, rds, ghostvars, call, snap, mu>>
  /\ UNCHANGED <<cfg, shut, payments, jobs, pending, wrk, req>>

\* t.mu.Lock() or t.mu.RLock() returns in goroutine p.
TrLock(p) ==
  /\ gor[p].pc = "lock"
  /\ IF gor[p].op = "RecordSuccess"
       THEN /\ Lockable(mu)
            /\ mu' = [mu EXCEPT !.writers = @ + 1,
                                !.waited = @ \/ \E q \in Procs \ {p} :
                                  gor[q].pc = "lock" /\ gor[q].op = "RecordSuccess"]
       ELSE /\ RLockable(mu)
            /\ mu' = [mu EXCEPT !.readers = @ + 1]
  /\ gor' = [gor EXCEPT ![p].pc = "in"]
  /\ UNCHANGED <<now, mem, rds, ghostvars, call, snap, pipevars>>

\* RecordSuccess, first half: append reads the payer's slice.
TrLoad(p, w) ==
  /\ gor[p].pc = "in" /\ gor[p].op = "RecordSuccess"
  /\ gor' = [gor EXCEPT ![p].pc = "loaded", ![p].buf = payments[w]]
  /\ UNCHANGED <<now, mem, rds, ghostvars, call, snap, mu, pipevars>>

\* RecordSuccess, second half: the slice with the new timestamp is stored
\* and cleaned up.
TrStore(p, w) ==
  /\ gor[p].pc = "loaded"
  /\ payments' = RecordSuccess([payments EXCEPT ![w] = gor[p].buf], w, now)
  /\ gor' = [gor EXCEPT ![p].pc = "out"]
  /\ UNCHANGED <<now, mem, rds, ghostvars, call, snap, mu>>
  /\ UNCHANGED <<cfg, shut, jobs, pending, wrk, req, paid>>

\* A reading method computes its result.
TrRead(p, w) ==
  /\ gor[p].pc = "in" /\ gor[p].op \in Readers
  /\ gor' = [gor EXCEPT ![p].pc = "out",
                        ![p].ret = Tracker_Read(gor[p].op, payments, w, now)]
  /\ UNCHANGED <<now, mem, rds, ghostvars, call, snap, mu, pipevars>>

\* The deferred Unlock or RUnlock: the call returns.
TrUnlock(p) ==
  /\ gor[p].pc = "out"
  /\ mu' = IF gor[p].op = "RecordSuccess" THEN [mu EXCEPT !.writers = @ - 1]
                                          ELSE [mu EXCEPT !.readers = @ - 1]
  /\ gor' = [gor EXCEPT ![p] = [@ EXCEPT !.pc = "idle"]]
  /\ UNCHANGED <<now, mem, rds, ghostvars, call, snap, pipevars>>

\* A direct call of Tracker.RecordSuccess, as the tests make it; the ghost
\* last notes the call, the payer and the length of the payer's record
\* before the call.
CallRecordSuccess(w) ==
  /\ Len(payments[w]) < MaxPay
  /\ payments' = RecordSuccess(payments, w, now)
  /\ last' = [NoCall EXCEPT !.op = "RecordSuccess", !.key = w,
                            !.n = Len(payments[w])]
  /\ UNCHANGED <<now, mem, rds, sync, refd, fk, ep, rg, low, concvars>>
  /\ UNCHANGED <<cfg, shut, jobs, pending, wrk, req, paid>>

\* A direct call of Tracker.RecordFailure.
CallRecordFailure(w) ==
  /\ payments' = RecordFailure(payments, w)
  /\ last' = [NoCall EXCEPT !.op = "RecordFailure", !.key = w,
                            !.n = Len(payments[w])]
  /\ UNCHANGED <<now, mem, rds, sync, refd, fk, ep, rg, low, concvars>>
  /\ UNCHANGED <<cfg, shut, jobs, pending, wrk, req, paid>>

\* The tracker runs are followed over the first instants and, after a
\* pause in which nothing is called, from one trust window after the start
\* until the successes of the first instants have left the window.
MaxTrust == TrustWindow + MaxShort + 1
WindowOut ==
  /\ now <= MaxShort
  /\ Elapse(TrustWindow)
LateTick ==
  /\ now >= TrustWindow
  /\ Tick(MaxTrust)

Next ==
  \/ \E k \in Keys : Allow(k, 0)
  \/ \E k \in Keys : Refill(k, CapU)
  \/ \E k \in Keys : Available(k, 0)
  \/ Tick(MaxShort)

\* One client, Redis callers with lagging clocks.
NextOne ==
  \/ \E k \in OneKey, s \in 0..MaxSkew : Allow(k, s)
  \/ \E k \in OneKey, n \in Amounts : Refill(k, n)
  \/ \E k \in OneKey, s \in 0..MaxSkew : Available(k, s)
  \/ Tick(MaxTime)

\* One client, all callers on the true clock, idle periods as long as the
\* Redis expiry.
NextIdle ==
  \/ \E k \in OneKey : Allow(k, 0)
  \/ \E k \in OneKey, n \in Amounts : Refill(k, n)
  \/ \E k \in OneKey : Available(k, 0)
  \/ Tick(MaxIdle)

\* One client, several goroutines calling Allow and Refill concurrently.
NextConc ==
  \/ \E p \in Procs, op \in {"allow", "refill"} : Invoke(p, op)
  \/ \E p \in Procs, k \in OneKey : Run(p, k)
  \/ \E k \in OneKey : NewRound(k)
  \/ Tick(MaxConc)

\* The server: requests of one client through the admission middleware,
\* and the settlement worker.
NextPipe ==
  \/ \E b \in Backends, o \in BOOLEAN : Main(b, o)
  \/ \E k \in OneKey, lerr \in BOOLEAN : Arrive(k, FALSE, "", lerr)
  \/ \E k \in OneKey, w \in Payers, lerr \in BOOLEAN : Arrive(k, TRUE, w, lerr)
  \/ \E verified \in BOOLEAN, rerr \in BOOLEAN : VerifyReturn(verified, rerr)
  \/ EnqueueSend
  \/ \E ok \in BOOLEAN, rerr \in BOOLEAN : SettleReturn(ok, rerr)
  \/ Respond
  \/ WorkerTake
  \/ SleepOut
  \/ WorkerWake
  \/ \E ok \in BOOLEAN : WorkerSettle(ok)
  \/ Tick(MaxShort)

\* The server when every payment header is one that extractWalletAddress
\* cannot read.
NextAnon ==
  \/ \E b \in Backends, o \in BOOLEAN : Main(b, o)
  \/ \E k \in OneKey, lerr \in BOOLEAN : Arrive(k, FALSE, "", lerr)
  \/ \E k \in OneKey, h \in Unreadable, lerr \in BOOLEAN :
       Arrive(k, TRUE, extractWalletAddress(h), lerr)
  \/ \E verified \in BOOLEAN, rerr \in BOOLEAN : VerifyReturn(verified, rerr)
  \/ EnqueueSend
  \/ \E ok \in BOOLEAN, rerr \in BOOLEAN : SettleReturn(ok, rerr)
  \/ Respond
  \/ WorkerTake
  \/ SleepOut
  \/ WorkerWake
  \/ \E ok \in BOOLEAN : WorkerSettle(ok)
  \/ Tick(MaxShort)

\* The trust tracker alone: two payers, calls one after another.
NextTrust ==
  \/ \E w \in Wallets : CallRecordSuccess(w)
  \/ \E w \in Wallets : CallRecordFailure(w)
  \/ Tick(MaxShort)
  \/ WindowOut
  \/ LateTick

\* The trust tracker called by several goroutines at once for one payer.
NextLock ==
  \/ \E p \in Procs, op \in TrackerOps, w \in Payers : TrCall(p, op, w)
  \/ \E p \in Procs : TrLock(p)
  \/ \E p \in Procs, w \in Payers : TrLoad(p, w)
  \/ \E p \in Procs, w \in Payers : TrStore(p, w)
  \/ \E p \in Procs, w \in Payers : TrRead(p, w)
  \/ \E p \in Procs : TrUnlock(p)
  \/ Tick(MaxShort)

\* The settlement queue alone: jobs of two payers, and the worker.
NextQueue ==
  \/ \E w \in Wallets : Enqueue(w, QueueLen)
  \/ WorkerTake
  \/ SleepOut
  \/ WorkerWake
  \/ \E ok \in BOOLEAN : WorkerSettle(ok)
  \/ Tick(MaxShort)

\* Spec: one client, lagging clocks.  SpecKeys: several clients over a
\* short time.  SpecIdle: one client over a long time.
Spec == Init /\ [][NextOne]_vars
SpecKeys == Init /\ [][Next]_vars
SpecIdle == Init /\ [][NextIdle]_vars
SpecConc == Init /\ [][NextConc]_vars
SpecPipe == Init /\ [][NextPipe]_vars
SpecAnon == Init /\ [][NextAnon]_vars
SpecTrust == Init /\ [][NextTrust]_vars
SpecLock == Init /\ [][NextLock]_vars
SpecQueue == Init /\ [][NextQueue]_vars

\* The queue alone, closed at some point: every job enqueued before
\* Close.  The worker goroutine is scheduled, time.Sleep and the
\* facilitator's settle calls return, and so does wg.Wait() once the
\* worker is done.
NextClose ==
  \/ \E w \in Wallets : MayEnqueue /\ Enqueue(w, QueueLen)
  \/ WorkerTake
  \/ SleepOut
  \/ WorkerWake
  \/ \E ok \in BOOLEAN : WorkerSettle(ok)
  \/ Tick(MaxShort)
  \/ CloseCall
  \/ WorkerExit
  \/ CloseReturn
\* The admission pipeline with its worker scheduled and every call of the
\* facilitator returning; payments arrive while the runs explored leave
\* the worker the time to sleep before each of their settlements.
NextPipeFair ==
  \/ \E b \in Backends, o \in BOOLEAN : Main(b, o)
  \/ \E k \in OneKey, lerr \in BOOLEAN : Arrive(k, FALSE, "", lerr)
  \/ \E k \in OneKey, w \in Payers, lerr \in BOOLEAN :
        TimeToSettle /\ Arrive(k, TRUE, w, lerr)
  \/ \E verified \in BOOLEAN, rerr \in BOOLEAN : VerifyReturn(verified, rerr)
  \/ EnqueueSend
  \/ \E ok \in BOOLEAN, rerr \in BOOLEAN : SettleReturn(ok, rerr)
  \/ Respond
  \/ WorkerTake
  \/ SleepOut
  \/ WorkerWake
  \/ \E ok \in BOOLEAN : WorkerSettle(ok)
  \/ Tick(MaxShort)
HandlerFair ==
  /\ WF_vars(\E verified \in BOOLEAN, rerr \in BOOLEAN : VerifyReturn(verified, rerr))
  /\ WF_vars(EnqueueSend)
  /\ WF_vars(\E ok \in BOOLEAN, rerr \in BOOLEAN : SettleReturn(ok, rerr))
  /\ WF_vars(Respond)
WorkerFair ==
  /\ WF_vars(WorkerTake) /\ WF_vars(SleepOut) /\ WF_vars(WorkerWake)
  /\ WF_vars(\E ok \in BOOLEAN : WorkerSettle(ok))
  /\ WF_vars(WorkerExit)
SpecPipeFair == Init /\ [][NextPipeFair]_vars /\ WorkerFair /\ HandlerFair
SpecClose == Init /\ [][NextClose]_vars /\ WorkerFair /\ WF_vars(CloseReturn)

MaxNow == IF MaxIdle > MaxPipe THEN MaxIdle ELSE MaxPipe
TypeOK ==
  /\ now \in 0..MaxNow
  /\ mem.tokens \in Int /\ mem.lastRefillTime \in 0..MaxNow
  /\ \A k \in Keys : rds[k].present \in BOOLEAN

\* =============================================================== claims
\* What a bucket holds, by bucket name.
BTok(b) == IF b = "mem" THEN mem.tokens ELSE RTokens(rds[b])
\* The last call was an Allow that bucket b refused.
RefusedLast(b) ==
  /\ last.op = "allow"
  /\ \/ b = "mem" /\ ~last.memOk
     \/ b = last.key /\ ~last.rdsOk
\* The natural-refill rule of the specification, section 4.1.
NaturalRule(tok, d) == IF tok < CapU THEN Min(CapU, tok + d * RefillRate) ELSE tok
\* Elapsed time a Redis call with clock cnow sees on hash h.
RedisElapsed(h, cnow) ==
  IF h.present /\ h.last_refill # NoField THEN cnow - h.last_refill ELSE 0

C2_OnlyRefillExceeds ==
  \A k \in Keys \ refd :
     /\ Mem_Available(mem, now)[2] <= CapU
     /\ Redis_Available(rds[k], now) <= CapU

C4_AllowAllOrNothing ==
  [][ last'.op = "allow" =>
        LET pm == NaturalRule(mem.tokens, now - mem.lastRefillTime)
            h  == rds[last'.key]
            pr == NaturalRule(RTokens(h), RedisElapsed(h, now - last'.skew))
        IN  /\ last'.memOk <=> pm >= One
            /\ mem.tokens' = IF last'.memOk THEN pm - One ELSE pm
            /\ last'.rdsOk <=> pr >= One
            /\ RTokens(rds'[last'.key]) = IF last'.rdsOk THEN pr - One ELSE pr ]_vars
\* Reached: a refused Allow that left a fraction of a token in both buckets.
C4_Witness ==
  /\ RefusedLast("mem") /\ RefusedLast("a")
  /\ mem.tokens > 0 /\ mem.tokens < One
  /\ rds["a"].tokens > 0 /\ rds["a"].tokens < One

\* C5 - A never-before-seen key starts at full capacity: with no time
\* elapsing, Available returns capacity and exactly the first capacity
\* Allows are permitted, in either limiter.
C5_FreshKeyFull ==
  \A k \in Keys :
     fk[k].st = "burst" =>
       /\ fk[k].moks <= Capacity /\ fk[k].roks <= Capacity
       /\ (RefusedLast("mem") /\ last.key = k) => fk[k].moks = Capacity
       /\ RefusedLast(k) => fk[k].roks = Capacity
       /\ (last.op = "available" /\ last.key = k /\ fk[k].moks = 0 /\ fk[k].roks = 0)
            => (last.memRet = CapU /\ last.rdsRet = CapU)

C7_DecayOnlyByConsumption ==
  [][ sync' =>
        /\ mem.tokens' < mem.tokens =>
             (last'.op = "allow" /\ last'.memOk /\ mem.tokens - mem.tokens' <= One)
        /\ \A k \in Keys :
             RTokens(rds'[k]) < RTokens(rds[k]) =>
               /\ last'.op = "allow" /\ last'.key = k /\ last'.rdsOk
               /\ RTokens(rds[k]) - RTokens(rds'[k]) <= One ]_vars

\* C8 - The two limiters are observationally equivalent: the same calls at
\* the same timestamps return the same results.
C8_BackendsAgree ==
  sync => (last.memOk = last.rdsOk /\ last.memRet = last.rdsRet)

\* C9 - Buckets are per client key: a call on key A leaves what every other
\* key B would read unchanged, in either limiter.
C9_PerKeyFrame ==
  [][ last'.op \in {"allow", "refill", "available"} =>
        \A kb \in Keys \ {last'.key} :
           /\ Mem_Available(mem', now')[2] = Mem_Available(mem, now)[2]
           /\ Redis_Available(rds'[kb], now') = Redis_Available(rds[kb], now) ]_vars

\* C10 - Every bucket's tokens are >= 0 in every reachable state, also when
\* a Redis caller's clock is behind the stored last_refill.
C10_TokensNonNegative ==
  /\ mem.tokens >= 0
  /\ \A k \in Keys : rds[k].present => rds[k].tokens >= 0

\* C11 - The stored last_refill never decreases: every step that leaves a
\* bucket with a last_refill stores a value greater than or equal to the one
\* it replaces, for the in-process bucket and for every Redis key.
C11_LastRefillMonotone ==
  [][ /\ mem.lastRefillTime' >= mem.lastRefillTime
      /\ \A k \in Keys :
           (/\ rds[k].present /\ rds[k].last_refill # NoField
            /\ rds'[k].present /\ rds'[k].last_refill # NoField)
             => rds'[k].last_refill >= rds[k].last_refill ]_vars

\* C13 - A Refill keeps what had accrued: with prior the value Available
\* would return just before Refill(k, n), Available sampled e after the
\* Refill lies in [prior + n, prior + n + e * rate], in both limiters.
C13_RefillKeepsAccrued ==
  [][ last'.op = "refill" =>
        \A e \in 0..(MaxTime - now) :
           LET n  == last'.n
               pm == Mem_Available(mem, now)[2]
               am == Mem_Available(mem', now + e)[2]
               pr == Redis_Available(rds[last'.key], now)
               ar == Redis_Available(rds'[last'.key], now + e)
           IN  /\ pm + n <= am /\ am <= pm + n + e * RefillRate
               /\ pr + n <= ar /\ ar <= pr + n + e * RefillRate ]_vars

\* The calls of the current round that have returned, the orders in which
\* they can be lined up, and the instants at which each can take effect
\* (between its invocation and its response).
Returned == {p \in Procs : call[p].pc = "done"}
Perms(S) == {f \in [1..Cardinality(S) -> S] :
               \A i, j \in 1..Cardinality(S) : f[i] = f[j] => i = j}
Points(S) == {tau \in [S -> 0..MaxConc] :
                \A p \in S : call[p].inv <= tau[p] /\ tau[p] <= call[p].resp}
InOrder(f, tau, n) == \A i, j \in 1..n : i < j => tau[f[i]] <= tau[f[j]]
\* The calls f[i..n], run one after another on bucket tb, each at its
\* instant tau, return what the callers got.
RECURSIVE SeqMem(_, _, _, _, _)
SeqMem(tb, f, tau, i, n) ==
  IF i > n THEN TRUE
  ELSE LET c == call[f[i]]
       IN  IF c.op = "allow"
             THEN LET m == Mem_Allow(tb, "a", tau[f[i]])
                  IN  m[2] = c.memOk /\ SeqMem(m[1], f, tau, i + 1, n)
             ELSE SeqMem(Mem_Refill(tb, "a", CapU), f, tau, i + 1, n)
RECURSIVE SeqRds(_, _, _, _, _)
SeqRds(h, f, tau, i, n) ==
  IF i > n THEN TRUE
  ELSE LET c == call[f[i]]
           t == tau[f[i]]
       IN  IF c.op = "allow"
             THEN LET r == Redis_AllowScript(h, t, t)
                  IN  r[2] = c.rdsOk /\ SeqRds(r[1], f, tau, i + 1, n)
             ELSE SeqRds(Redis_Refill(h, CapU, t), f, tau, i + 1, n)
MemLinearizable ==
  \E f \in Perms(Returned) : \E tau \in Points(Returned) :
     /\ InOrder(f, tau, Cardinality(Returned))
     /\ SeqMem(snap.mem, f, tau, 1, Cardinality(Returned))
RdsLinearizable ==
  \E f \in Perms(Returned) : \E tau \in Points(Returned) :
     /\ InOrder(f, tau, Cardinality(Returned))
     /\ SeqRds(snap.rds, f, tau, 1, Cardinality(Returned))
\* The round consists of Allows only, all made at the instant it began.
AllowsAtOnce ==
  /\ Returned # {}
  /\ \A p \in Procs : call[p].pc = "done" \/ call[p].pc = "idle"
  /\ \A p \in Returned : call[p].op = "allow" /\ call[p].inv = now
  /\ MemSettled(snap.mem, now) /\ RedisSettled(snap.rds, now)
Permitted(S) == {p \in S : call[p].memOk}
PermittedRds(S) == {p \in S : call[p].rdsOk}

\* C12 - Concurrent Allow and Refill calls on one key are linearizable: the
\* results returned are those of the same calls run one after another in
\* some order, each between its invocation and its response.  With no time
\* elapsing and no Refill, N concurrent Allows on a bucket holding t tokens
\* permit exactly min(N, floor(t)).
C12_Linearizable ==
  /\ MemLinearizable
  /\ RdsLinearizable
  /\ AllowsAtOnce =>
       /\ Cardinality(Permitted(Returned))
            = Min(Cardinality(Returned), snap.mem.tokens \div One)
       /\ Cardinality(PermittedRds(Returned))
            = Min(Cardinality(Returned), RTokens(snap.rds) \div One)

\* The request's payment was accepted: verified, and either admitted on
\* the optimistic path or settled synchronously with success.
Accepted(r) == r.verified /\ ((r.trusted /\ r.handler = 1) \/ r.settleOk)
\* Nothing of the payment path was done for the request.
NoPaymentWork(r) ==
  r.settle = 0 /\ r.refill = 0 /\ r.enq = 0 /\ r.rec = 0

\* C14 - The paid request costs one token: when a request is admitted by a
\* successful synchronous payment that took d, Available immediately
\* afterwards lies in [capacity - 1, capacity - 1 + d * rate].
C14_PaidRequestCostsOne ==
  [][ (req.pc = "settling" /\ req'.handler = 1) =>
        LET d  == now - req.t0
            av == Lim_Available(cfg.limiter, mem', rds', req.key, now)
        IN  /\ CapU - One <= av
            /\ av <= CapU - One + d * RefillRate ]_vars

\* C15 - The protected handler is invoked only if Allow permitted, or the
\* payment was verified, Refill succeeded and the payer was trusted or the
\* synchronous settlement succeeded; otherwise the response is 402 or 500
\* and the handler is not invoked; a finished request has exactly one of
\* the two outcomes.
C15_HandlerOnlyIfAdmitted ==
  /\ req.handler = 1 =>
       \/ req.allowed = "yes"
       \/ /\ req.allowed = "no" /\ req.verified /\ req.refillOk
          /\ req.trusted \/ req.settleOk
  /\ req.pc = "done" =>
       \/ req.handler = 1 /\ req.status = 200
       \/ req.handler = 0 /\ req.status \in {402, 500}
  /\ req.pc # "done" => (req.handler = 0 /\ req.status = 0)
\* Reached: a trusted payer's request admitted on the optimistic path.
C15_Witness ==
  /\ req.pc = "done" /\ req.handler = 1 /\ req.allowed = "no"
  /\ req.trusted /\ req.enq = 1 /\ req.settle = 0

\* C16 - When the synchronous settlement of an untrusted payer fails, the
\* response is 402, Refill is not called, the bucket is left as it was and
\* no trust record changes; for an untrusted payer Refill is called only
\* after settle returned success.
C16_SettleFailureNoEffect ==
  /\ [][ (req.pc = "settling" /\ req'.pc = "done" /\ ~req'.settleOk) =>
           /\ req'.status = 402 /\ req'.handler = 0
           /\ req'.refill = 0 /\ req'.rec = 0 /\ req'.enq = 0
           /\ UNCHANGED <<mem, rds, payments, jobs, pending>> ]_vars
  /\ [](req.refill = 1 /\ ~req.trusted => req.settleOk)
\* Reached: a failed synchronous settlement of a payer who has a history.
C16_Witness ==
  /\ req.pc = "done" /\ req.settle = 1 /\ ~req.settleOk /\ req.status = 402
  /\ payments[req.wallet] # <<>>

\* C17 - A rate-limited request without a payment header, or whose payment
\* the facilitator rejects, gets 402 and changes nothing: no settle, no
\* Refill, nothing enqueued, no trust record changed, and the bucket reads
\* as before.
C17_UnpaidRefusalNoEffect ==
  /\ [][ (req.pc = "idle" /\ req'.allowed = "no" /\ ~req'.hdr) =>
           /\ req'.pc = "done" /\ req'.status = 402 /\ req'.handler = 0
           /\ req'.verify = 0 /\ NoPaymentWork(req')
           /\ UNCHANGED <<payments, jobs, pending, wrk>>
           /\ Lim_Available(cfg.limiter, mem', rds', req'.key, now)
                = Lim_Available(cfg.limiter, mem, rds, req'.key, now) ]_vars
  /\ [][ (req.pc = "verifying" /\ req' # req /\ ~req'.verified) =>
           /\ req'.pc = "done" /\ req'.status = 402 /\ req'.handler = 0
           /\ NoPaymentWork(req')
           /\ UNCHANGED <<mem, rds, payments, jobs, pending, wrk>> ]_vars
\* Reached: a rejected payment of a payer who has a history.
C17_Witness ==
  /\ req.pc = "done" /\ req.hdr /\ req.verify = 1 /\ ~req.verified
  /\ req.status = 402 /\ payments[req.wallet] # <<>>

\* C18 - When Allow returns an error the response is 500 and nothing else
\* happens: no handler, no verify, no settle, no Refill, no trust update.
C18_LimiterErrorIs500 ==
  /\ [](req.allowed = "err" =>
          /\ req.pc = "done" /\ req.status = 500 /\ req.handler = 0
          /\ req.verify = 0 /\ NoPaymentWork(req))
  /\ [][ (req.pc = "idle" /\ req'.allowed = "err") =>
           UNCHANGED <<payments, jobs, pending, wrk>> ]_vars
\* Reached: a limiter error on the paying request of a trusted payer.
C18_Witness ==
  /\ req.allowed = "err" /\ req.hdr
  /\ cfg.optimistic /\ IsTrusted(payments, req.wallet, now)

\* C19 - No pre-payment: when Allow permitted, a payment header is ignored
\* (no verify, settle, Refill, enqueue or trust update), so payment work is
\* done only for a request whose Allow was refused.
C19_NoPrepayment ==
  /\ [](req.allowed = "yes" =>
          /\ req.pc = "done" /\ req.handler = 1
          /\ req.verify = 0 /\ NoPaymentWork(req))
  /\ [](req.verify = 1 \/ ~NoPaymentWork(req) => req.allowed = "no")
  /\ [][ (req.pc = "idle" /\ req'.allowed = "yes") =>
           UNCHANGED <<payments, jobs, pending, wrk>> ]_vars
\* Reached: a permitted request that carried a payment header.
C19_Witness ==
  /\ req.allowed = "yes" /\ req.hdr /\ req.handler = 1 /\ req.status = 200

\* C20 - Every accepted payment results in exactly one Refill of the
\* client's key by exactly capacity, and Refill is called for accepted
\* payments only: as many Refills as accepted payments.
C20_OneRefillPerPayment ==
  req.pc = "done" =>
    /\ Accepted(req) => (req.refill = 1 /\ req.refillOk /\ req.amount = CapU)
    /\ req.refill = 1 => Accepted(req)

\* Jobs handed to the settlement queue and not yet settled.
InWorker == IF wrk.pc \in {"sleep", "settling"} THEN 1 ELSE 0
Unsettled == Len(jobs) + InWorker

\* C21 - On the optimistic path the middleware performs Refill(k, capacity),
\* then enqueues the settlement job, then forwards to the handler, and
\* never calls settle itself: the request completes with 200 in the step
\* that follows Enqueue, whatever the worker is doing, and its job is left
\* to the worker (every enqueued job is in the queue or in the worker until
\* the worker has settled it).
C21_OptimisticOrder ==
  /\ [](req.trusted =>
          /\ req.verified /\ req.settle = 0 /\ req.pc # "settling"
          /\ req.refill = 1 /\ req.amount = CapU
          /\ req.handler = 1 => req.enq = 1)
  /\ [](req.enq = 1 =>
          /\ req.trusted /\ req.refillOk
          /\ req.pc = "done" /\ req.handler = 1 /\ req.status = 200)
  /\ [][ (req.pc = "enqueueing" /\ req' # req) =>
           /\ req.refillOk /\ req.enq = 0 /\ req.handler = 0
           /\ jobs' = Append(jobs, req.wallet)
           /\ req'.enq = 1 /\ req'.handler = 1
           /\ UNCHANGED <<mem, rds, payments, pending, wrk>> ]_vars
  /\ [](pending = Unsettled + (IF req.pc = "enqueueing" THEN 1 ELSE 0))
\* Reached: a 200 sent while the request's job is still in the queue and
\* the worker is in the settle call of an earlier job.
C21_Witness ==
  /\ req.pc = "done" /\ req.status = 200 /\ req.enq = 1
  /\ jobs = <<req.wallet>> /\ wrk.pc = "settling"

\* The middleware decides on the path of a verified payment in this step.
PathChosen == req.pc = "verifying" /\ req'.verified
\* Payer w has made exactly Threshold payments, the first of them less
\* than the trust window ago.
ThresholdPaid(w) ==
  /\ cfg.optimistic /\ paid[w].n = Threshold
  /\ now - paid[w].since < TrustWindow

\* C22 - Optimistic admission is gated by trust: a payment takes the
\* optimistic path only if IsTrusted(payer) held when the middleware
\* checked it; the first Threshold payments of a payer are settled in the
\* handler before the request is served; and when a payer has made
\* Threshold payments within the window, the next one is served
\* optimistically.
C22_TrustGate ==
  /\ [][ (PathChosen /\ req'.trusted) =>
           /\ cfg.optimistic /\ IsTrusted(payments, req.wallet, now)
           /\ paid[req.wallet].n >= Threshold ]_vars
  /\ [][ (PathChosen /\ paid[req.wallet].n < Threshold) =>
           (req'.pc = "settling" /\ req'.handler = 0) ]_vars
  /\ [](req.handler = 1 /\ req.verified /\ ~req.trusted => req.settleOk)
  /\ [][ (PathChosen /\ ThresholdPaid(req.wallet)) => req'.trusted ]_vars

\* C23 - A payment whose header cannot be parsed to a payer address gets
\* the empty payer id, and the empty payer id is never trusted: whatever
\* payments were made with such headers, IsTrusted("") is false and no
\* such payment is served on the optimistic path.
C23_EmptyPayerUntrusted ==
  /\ \A h \in Unreadable : extractWalletAddress(h) = ""
  /\ ~IsTrusted(payments, "", now)
  /\ (req.hdr /\ req.wallet = "") => (~req.trusted /\ req.enq = 0)

\* The worker's settle call returns in this step.
SettleEnds == wrk.pc = "settling" /\ wrk'.pc = "wait"

\* C24 - When a background settlement fails the worker deletes the trust
\* record of the job's payer and changes nothing else but the queue's own
\* count of pending jobs; no step of the worker changes a bucket, and the
\* request and its response are left as they are.
C24_WorkerFailureFrame ==
  /\ [][ wrk' # wrk => UNCHANGED <<mem, rds, req, cfg>> ]_vars
  /\ [][ (SettleEnds /\ ~wrk'.ok) =>
           /\ payments'[wrk.job] = <<>>
           /\ \A w \in Wallets \ {wrk.job} : payments'[w] = payments[w]
           /\ pending' = pending - 1
           /\ UNCHANGED <<now, mem, rds, req, jobs, cfg>> ]_vars
\* Reached: the settlement of a request has failed while its 200 stands,
\* and the bucket still holds the tokens of its Refill.
C24_Witness ==
  /\ wrk.pc = "wait" /\ ~wrk.first /\ ~wrk.ok
  /\ req.pc = "done" /\ req.enq = 1 /\ req.status = 200 /\ pending = 0
  /\ wrk.job = req.wallet /\ payments[req.wallet] = <<>>
  /\ Lim_Available(cfg.limiter, mem, rds, req.key, now) >= CapU

\* C25 - After a background settlement of a payer has failed, trust is
\* revoked: IsTrusted(payer) is false once the failed job has completed,
\* and the next payment of the payer is settled synchronously, not served
\* on the optimistic path.
C25_FailureRevokesTrust ==
  /\ [][ (SettleEnds /\ ~wrk'.ok) =>
           ~IsTrusted(payments', wrk.job, now') ]_vars
  /\ [][ (PathChosen /\ paid[req.wallet].revoked) =>
           (~req'.trusted /\ req'.pc = "settling") ]_vars

\* The recorded successes of payer w whose timestamp is after now - window.
InWindow(w) ==
  Cardinality({i \in DOMAIN payments[w] : payments[w][i] > now - TrustWindow})
\* Tracker.RecentPayments(w) and Tracker.IsTrusted(w) as a caller sees them.
RecentPayments(w) == countRecent(payments, w, now)
Trusted(w) == IsTrusted(payments, w, now)

\* C26 - IsTrusted(payer) is true if and only if the payer's recorded
\* successes with timestamp > now - window number at least threshold:
\* false with threshold - 1 of them, true with threshold, and false again
\* by the passage of time alone when too few are left inside the window.
\* A RecordSuccess adds one success to those inside the window.
C26_TrustedIffThreshold ==
  /\ [](\A w \in Wallets :
          /\ Trusted(w) <=> InWindow(w) >= Threshold
          /\ InWindow(w) = Threshold - 1 => ~Trusted(w)
          /\ RecentPayments(w) = InWindow(w))
  /\ [][ \A w \in Wallets :
           (Len(payments'[w]) > 0 /\ payments'[w] # payments[w]) =>
             InWindow(w)' = InWindow(w) + 1 ]_vars
  /\ [][ \A w \in Wallets :
           (Trusted(w) /\ ~Trusted(w)' /\ payments'[w] # <<>>) =>
             (now' > now /\ payments' = payments) ]_vars
\* Reached: a payer with threshold recorded successes, trusted when the
\* last was recorded, is untrusted now: one success is exactly one window
\* old, the others are younger.
C26_Witness ==
  \E w \in Wallets :
    /\ Len(payments[w]) = Threshold /\ ~Trusted(w)
    /\ payments[w][1] = now - TrustWindow
    /\ InWindow(w) = Threshold - 1

\* C27 - RecordFailure(payer) deletes the payer's entire record: right
\* after it, whatever the history, RecentPayments(payer) = 0 and
\* IsTrusted(payer) is false; trust then takes threshold new successes (a
\* trusted payer has threshold successes in its record, and a
\* RecordSuccess adds one); the records of the other payers are unchanged.
C27_FailureDeletesRecord ==
  /\ [](last.op = "RecordFailure" =>
          /\ payments[last.key] = <<>>
          /\ RecentPayments(last.key) = 0 /\ ~Trusted(last.key))
  /\ [][ last'.op = "RecordFailure" =>
           \A w \in Wallets \ {last'.key} : payments'[w] = payments[w] ]_vars
  /\ [](\A w \in Wallets : Trusted(w) => Len(payments[w]) >= Threshold)
  /\ [][ last'.op = "RecordSuccess" =>
           Len(payments'[last'.key]) <= Len(payments[last'.key]) + 1 ]_vars
\* Reached: RecordFailure on a payer who had threshold or more successes
\* on record, while another payer is trusted.
C27_Witness ==
  /\ last.op = "RecordFailure" /\ last.n >= Threshold
  /\ \E w \in Wallets \ {last.key} : Trusted(w)

\* Every tracker call has returned.
AllReturned == \A p \in Procs : gor[p].pc = "idle"
\* Goroutine p is between Lock and Unlock.
Inside(p) == gor[p].pc \in {"in", "loaded", "out"}

\* C28 - The tracker's operations are safe under concurrent access and
\* lose no update: a writer is inside the mutex alone, readers only with
\* readers, and when N RecordSuccess calls for one payer have run
\* concurrently with reads, within the window and with no RecordFailure,
\* RecentPayments(payer) is N once all calls have returned.
C28_NoLostUpdate ==
  /\ mu.writers <= 1 /\ (mu.writers = 1 => mu.readers = 0)
  /\ \A p \in Procs :
       Inside(p) /\ gor[p].op = "RecordSuccess" =>
         \A q \in Procs \ {p} : ~Inside(q)
  /\ \A p \in Procs : gor[p].ret <= Cardinality(Wallets) + paid["w1"].n
  /\ AllReturned => RecentPayments("w1") = paid["w1"].n
\* Reached: all calls have returned, among them as many RecordSuccess as
\* the run allows, one of which took the lock while another was waiting
\* for it.
C28_Witness ==
  /\ AllReturned /\ mu.waited
  /\ paid["w1"].n = MaxPay /\ RecentPayments("w1") = MaxPay

\* The worker's settle call begins in this step.
SettleBegins == wrk.pc # "settling" /\ wrk'.pc = "settling"

\* C29 - The settlement queue is FIFO with a minimum spacing: a job
\* enters the queue at its tail, the worker takes the job at the head and
\* settles it before it takes another; between the end of one settlement
\* and the beginning of the next the inter-settlement delay elapses, only
\* the first job being settled without it; the trust record is updated at
\* the end of each settlement, for the payer of the job just settled.
C29_FifoSpacing ==
  /\ [][ jobs' # jobs =>
           \/ /\ \E w \in Wallets : jobs' = Append(jobs, w)
              /\ wrk' = wrk
           \/ /\ jobs # <<>> /\ jobs' = Tail(jobs)
              /\ wrk.pc = "wait" /\ wrk'.pc # "wait"
              /\ wrk'.job = Head(jobs) ]_vars
  /\ [][ wrk.pc # "wait" => wrk'.job = wrk.job ]_vars
  /\ [][ SettleBegins =>
           IF wrk.pc = "wait" THEN wrk.first
           ELSE ~wrk.first /\ now' >= wrk.ended + SettleDelay ]_vars
  /\ [][ (wrk.pc = "wait" /\ wrk'.pc = "sleep") => ~wrk.first ]_vars
  /\ [][ payments' # payments =>
           /\ SettleEnds
           /\ \A w \in Wallets \ {wrk.job} : payments'[w] = payments[w] ]_vars
\* Reached: the worker settles a later job, one delay or more after the
\* end of the settlement before, while a job of another payer, enqueued
\* after it, waits in the queue behind a third.
C29_Witness ==
  /\ wrk.pc = "settling" /\ now >= wrk.ended + SettleDelay /\ wrk.wake > 0
  /\ Len(jobs) = QueueLen /\ jobs[Len(jobs)] # wrk.job

\* The settle calls in flight: the worker's and the request handler's.
SettlesInFlight ==
  B2N(wrk.pc = "settling") + B2N(req.pc = "settling")

\* C30 - Settlements against the facilitator are serialized: at every
\* moment at most one settle call is in flight, counting those of the
\* settlement worker and the synchronous ones of request handlers.
C30_OneSettleAtATime == SettlesInFlight <= 1

\* What the natural-refill rule makes of a Redis hash at time t, and of a
\* key that is not there (a full bucket).
RuleOnHash(h, t) ==
  IF h.present /\ h.last_refill # NoField
    THEN NaturalRule(h.tokens, t - h.last_refill)
    ELSE RTokens(h)
\* The tokens an operation leaves, given what the rule made of the bucket.
AfterOp(c, ruled, ok) ==
  IF c.op = "allow" THEN ruled - (IF ok THEN One ELSE 0)
  ELSE IF c.op = "refill" THEN ruled + c.n
  ELSE ruled

\* C36 - The natural-refill rule is applied on every limiter operation:
\* Allow, Refill and Available all first bring the bucket to
\* min(capacity, tokens + D * rate) if it is below capacity, D being the
\* time since last_refill, and set last_refill to now, in both limiters;
\* Refill adds the purchased amount to that, and Available returns it.
C36_RuleOnEveryOp ==
  [][ (last'.op \in {"allow", "refill", "available"} /\ last'.skew = 0) =>
        LET c  == last'
            rm == NaturalRule(mem.tokens, now - mem.lastRefillTime)
            rr == RuleOnHash(rds[c.key], now)
        IN  /\ mem'.tokens = AfterOp(c, rm, c.memOk)
            /\ mem'.lastRefillTime = now
            /\ c.op = "available" => (c.memRet = rm /\ c.rdsRet = rr)
            /\ c.op # "available" =>
                  /\ rds'[c.key].tokens = AfterOp(c, rr, c.rdsOk)
                  /\ rds'[c.key].last_refill = now ]_vars

\* What the callers of the limiter see of a bucket e ticks from now: the
\* answer of an Allow, of an Available, and of an Available that follows a
\* Refill of n tokens.
MemLater(tb, e, n) ==
  <<Mem_Allow(tb, "a", now + e)[2],
    Mem_Available(tb, now + e)[2],
    Mem_Available(Mem_Refill(tb, "a", n), now + e)[2]>>
RedisLater(h, e, n) ==
  <<Redis_AllowScript(h, now + e, now + e)[2],
    Redis_Available(h, now + e),
    Redis_Available(Redis_Refill(h, n, now + e), now + e)>>

\* C37 - Available is a read-only snapshot: a bucket on which Available
\* was just called answers every later Allow, Refill and Available as the
\* bucket it was before the call would have, in both limiters.
C37_AvailableReadOnly ==
  [][ last'.op = "available" =>
        \A e \in 0..(MaxTime - now), n \in 1..MaxOver :
           /\ MemLater(mem', e, n) = MemLater(mem, e, n)
           /\ RedisLater(rds'[last'.key], e, n) = RedisLater(rds[last'.key], e, n)
    ]_vars

\* The natural refill that the last limiter call credited to bucket b: what
\* the call found after its refill, less what the bucket held.
Credited(b) ==
  IF b = "mem" THEN Mem_refill(mem, now).tokens - mem.tokens
  ELSE IF last'.op = "allow"
         THEN Level(b, mem, rds, now - last'.skew) - RTokens(rds[b])
         ELSE last'.rdsRet - RTokens(rds[b])

\* C38 - Time spent at or above capacity is never cashed in: once
\* consumption has brought a bucket below capacity at time t, an Allow or
\* Available made at a later time t', the bucket having stayed below
\* capacity, credits at most (t' - t) * rate of natural refill.
C38_IdleAtCapacityNotCashed ==
  [][ last'.op \in {"allow", "available"} =>
        \A b \in {"mem", last'.key} :
           low[b] # AtCapacity => Credited(b) <= (now - low[b]) * RefillRate ]_vars

\* C39 - When Refill fails after a synchronous settlement has succeeded,
\* the request is answered 500, its handler is not invoked, and the log
\* names the transaction of the settlement.
C39_RefillFailureSurfaced ==
  (req.pc = "done" /\ req.settleOk /\ req.refill = 1 /\ ~req.refillOk) =>
     (req.status = 500 /\ req.handler = 0 /\ req.txlog)

\* The worker takes a job from the channel; the worker's attempt at the job
\* in its hand ends.
TakesJob == wrk.pc = "wait" /\ wrk'.pc # "wait"
AttemptEnds == wrk.pc = "settling" /\ wrk'.pc = "wait"

\* C31 - Every enqueued job is attempted exactly once.  A job leaves the
\* channel only into the worker's hand, which holds it unchanged until its
\* one settle call returns; the job is then gone, neither retried nor put
\* back, and the call's result makes exactly one trust update, for the
\* job's payer: RecordSuccess on success, RecordFailure on failure.
C31_AttemptedExactlyOnce ==
  /\ [][ TakesJob =>
           /\ jobs # <<>> /\ wrk'.job = Head(jobs) /\ jobs' = Tail(jobs)
           /\ payments' = payments ]_vars
  /\ [][ (wrk.pc # "wait" /\ ~AttemptEnds) =>
           /\ wrk'.job = wrk.job /\ wrk'.pc \in {wrk.pc, "settling"}
           /\ payments' = payments
           /\ Len(jobs') >= Len(jobs) ]_vars
  /\ [][ AttemptEnds =>
           /\ jobs' = jobs /\ wrk'.job = wrk.job
           /\ payments' = IF wrk'.ok
                             THEN RecordSuccess(payments, wrk.job, now)
                             ELSE RecordFailure(payments, wrk.job) ]_vars
  /\ [][ (wrk.pc = "wait" /\ ~TakesJob) =>
           (payments' = payments /\ Len(jobs') >= Len(jobs)) ]_vars
\* Reached: a failed attempt has wiped the record of its payer, the
\* successes of the other payer are kept, and jobs are still waiting.
C31_Witness ==
  /\ wrk.pc = "wait" /\ ~wrk.first /\ ~wrk.ok
  /\ payments[wrk.job] = <<>>
  /\ \E w \in Wallets \ {wrk.job} : Len(payments[w]) >= 2
  /\ Len(jobs) = QueueLen

\* A request handler enters Enqueue (pending++, then the send).
EnqueueStarts == req.pc = "verifying" /\ req'.pc = "enqueueing"

\* C33 - Pending() is an exact count of the unfinished settlements: it goes
\* up by one when an Enqueue call starts, also when the caller then blocks
\* on a full queue, down by one when a settlement has completed, and
\* changes in no other step; it is never negative and never less than the
\* number of jobs in the channel.
C33_PendingExact ==
  /\ [][ pending' = pending + B2N(EnqueueStarts) - B2N(AttemptEnds) ]_vars
  /\ [](pending >= 0 /\ pending >= Len(jobs))
\* Reached: a caller blocked in Enqueue on a full queue while the worker
\* holds a job, after a settlement that failed.
C33_Witness ==
  /\ req.pc = "enqueueing" /\ Len(jobs) = QueueCap
  /\ wrk.pc = "settling" /\ ~wrk.ok
  /\ pending = QueueCap + 2

\* A request handler is inside Enqueue, its job not yet in the channel.
InEnqueue == req.pc = "enqueueing"

\* C34 - The settlement queue is bounded, with back-pressure: the channel
\* never holds more jobs than its capacity; a caller inside Enqueue can
\* return whenever the channel has room, and only then, its job going to
\* the end of the channel; while the channel is full the caller waits and
\* the jobs in the channel stay as they are until the worker takes the
\* first of them.
C34_BoundedBackPressure ==
  /\ [](Len(jobs) <= QueueCap)
  /\ []((InEnqueue /\ Len(jobs) < QueueCap) => ENABLED EnqueueSend)
  /\ [][ (InEnqueue /\ req' # req) =>
           /\ Len(jobs) < QueueCap
           /\ jobs' = Append(jobs, req.wallet) ]_vars
  /\ [][ (InEnqueue /\ Len(jobs) = QueueCap) =>
           /\ req' = req
           /\ jobs' # jobs => (TakesJob /\ jobs' = Tail(jobs) /\ wrk'.job = Head(jobs))
    ]_vars
\* Reached: a caller waits inside Enqueue on a full channel while the
\* worker sleeps before its next settlement.
C34_Witness ==
  /\ InEnqueue /\ Len(jobs) = QueueCap
  /\ wrk.pc = "sleep" /\ now < wrk.wake

\* C35 - Close drains the queue.  With no Enqueue concurrent with it, a
\* call of Close returns, and when it has returned every job enqueued
\* before it has been attempted (none is left in the channel or in the
\* worker's hand), the worker has exited and Pending() is 0.
C35_CloseDrains ==
  /\ (shut = "waiting") ~> (shut = "returned")
  /\ [](shut = "returned" =>
          /\ jobs = <<>> /\ wrk.pc = "exited"
          /\ pending = 0)
\* Reached: Close has returned after the worker, which held a job and had
\* a full channel behind it when Close was called, settled them all, the
\* last one without success.
C35_Witness ==
  /\ shut = "returned" /\ wrk.pc = "exited"
  /\ ~wrk.ok /\ wrk.ended >= 2 * SettleDelay
  /\ \A w \in Wallets : payments[w] = <<>>

\* C32 - Every enqueued settlement job is eventually settled, whether or
\* not the request that enqueued it is still there: whenever settlements
\* are pending the count comes back to 0, and a count of 0 means that no
\* job is left in the channel, in the worker's hand or in an Enqueue call.
C32_EventuallySettled ==
  /\ (pending > 0) ~> (pending = 0)
  /\ (req.pc \in {"done", "idle"} /\ Unsettled > 0) ~> (Unsettled = 0)
  /\ [](pending = 0 => (Unsettled = 0 /\ ~InEnqueue))
\* Reached: the request that enqueued a job has been answered, and the
\* worker, which slept before the job, has since settled it; nothing is
\* pending.
C32_Witness ==
  /\ req.pc = "idle" /\ pending = 0
  /\ wrk.pc = "wait" /\ wrk.wake >= SettleDelay /\ wrk.ended >= wrk.wake

\* The request in the middleware has been answered.
Answered == req.pc = "done"

\* C40 - Every request terminates with exactly one response: a request in
\* the middleware is eventually answered, also one of a trusted payer that
\* waits in Enqueue on a full queue after its bucket was refilled; the
\* answer carries one status, and the handler is invoked at most once, for
\* a 200 answer only; an answered request is not touched again.
C40_OneResponse ==
  /\ (req.pc # "idle") ~> Answered
  /\ (InEnqueue /\ Len(jobs) = QueueCap) ~> (Answered /\ req.status = 200)
  /\ [](req.handler \in {0, 1})
  /\ [](Answered <=> req.status # 0)
  /\ [](Answered => (req.status \in {200, 402, 500}
                        /\ (req.handler = 1 <=> req.status = 200)))
  /\ [](~Answered => req.handler = 0)
  /\ [][ (Answered /\ req' # req) => req' = NoReq ]_vars
\* Reached: a trusted payer's request that waited in Enqueue on a full
\* queue has been answered 200 once the worker made room.
C40_Witness ==
  /\ Answered /\ req.status = 200 /\ req.enq = 1 /\ req.handler = 1
  /\ Len(jobs) = QueueCap /\ wrk.pc = "sleep" /\ pending = QueueCap + 1
  /\ now < wrk.wake

====
